---- MODULE Spec2Model ----
(***************************************************************************)
(* Model of src/http_security_check.py: the header analysis function       *)
(* analyze() and the single run of main() around it (banner, one fetch,    *)
(* one analysis, one report to one sink).                                  *)
(*                                                                         *)
(* Header names are strings (only ever compared for equality).  Header     *)
(* values are sequences of one-character strings, so that str.lower(),     *)
(* truthiness and the substring test `in` are computed character by        *)
(* character.  A Python dict is a sequence of <<key, value>> pairs in      *)
(* insertion order with distinct keys.                                     *)
(***************************************************************************)
EXTENDS Integers, Sequences, FiniteSets, TLC

\* Largest number of header fields in a response that the model enumerates.
MaxHeaders == 2

VARIABLES
    pc,            \* position of main(): start, banner, fetched, analyzed, done, failed
    json_out,      \* args.json_out: "None", "" or a path
    url,           \* args.url
    SEC_HEADERS,   \* the module-level checklist (a mutable Python list)
    fetched,       \* what fetch() returned: <<status, headers>>, or <<>> before/without it
    status,        \* local `status` of main()
    headers,       \* local `headers` of main(), the dict handed to analyze()
    report,        \* local `report` of main(), the dict analyze() returned
    stdout,        \* what has been printed, in order
    file,          \* the file named by --json-out
    fetchCalls,    \* number of calls of fetch()
    analyzeCalls   \* number of calls of analyze()

vars == <<pc, json_out, url, SEC_HEADERS, fetched, status, headers, report,
          stdout, file, fetchCalls, analyzeCalls>>

----------------------------------------------------------------------------
(* Strings *)

LowerAlpha == <<"a", "b", "c", "d", "e", "f", "g", "h", "i", "j", "k", "l", "m", "n", "o", "p", "q", "r", "s", "t", "u", "v", "w", "x", "y", "z">>
UpperAlpha == <<"A", "B", "C", "D", "E", "F", "G", "H", "I", "J", "K", "L", "M", "N", "O", "P", "Q", "R", "S", "T", "U", "V", "W", "X", "Y", "Z">>

\* The literals analyze() compares against.
MaxAgeToken == <<"m", "a", "x", "-", "a", "g", "e">>
MaxAgeZeroToken == <<"m", "a", "x", "-", "a", "g", "e", "=", "0">>
NosniffToken == <<"n", "o", "s", "n", "i", "f", "f">>
DenyToken == <<"d", "e", "n", "y">>
SameOriginToken == <<"s", "a", "m", "e", "o", "r", "i", "g", "i", "n">>

\* Header values the model lets a response carry.
HstsYear == <<"m", "a", "x", "-", "a", "g", "e", "=", "3", "1", "5", "3", "6", "0", "0", "0">>
HstsZero == <<"m", "a", "x", "-", "a", "g", "e", "=", "0">>
HstsBare == <<"m", "a", "x", "-", "a", "g", "e">>
HstsNoValue == <<"m", "a", "x", "-", "a", "g", "e", "=">>
HstsSpacedZero == <<"m", "a", "x", "-", "a", "g", "e", " ", "=", " ", "0">>
HstsQuotedZero == <<"m", "a", "x", "-", "a", "g", "e", "=", "\"", "0", "\"">>
HstsLeadingZero == <<"m", "a", "x", "-", "a", "g", "e", "=", "0", "5", "0", "0">>
HstsSubDomains == <<"i", "n", "c", "l", "u", "d", "e", "S", "u", "b", "D", "o", "m", "a", "i", "n", "s">>
HstsMixedZero == <<"M", "a", "x", "-", "A", "g", "e", "=", "0">>
HstsUpperYear == <<"M", "A", "X", "-", "A", "G", "E", "=", "3", "1", "5", "3", "6", "0", "0", "0">>
HstsPreloadZero == <<"p", "r", "e", "l", "o", "a", "d", ";", " ", "m", "a", "x", "-", "a", "g", "e", "=", "0">>
XfoDeny == <<"d", "e", "n", "y">>
XfoDenyUpper == <<"D", "E", "N", "Y">>
XfoSameOriginUpper == <<"S", "A", "M", "E", "O", "R", "I", "G", "I", "N">>
XfoDenyTrailing == <<"D", "E", "N", "Y", " ">>
XfoAllowFrom == <<"a", "l", "l", "o", "w", "-", "f", "r", "o", "m", " ", "h", "t", "t", "p", "s", ":", "/", "/", "e", "x", "a", "m", "p", "l", "e", ".", "c", "o", "m">>
XctoNosniff == <<"n", "o", "s", "n", "i", "f", "f">>
XctoMixed == <<"N", "o", "S", "n", "i", "f", "f">>
XctoPadded == <<" ", "n", "o", "s", "n", "i", "f", "f", " ">>
XctoSniff == <<"s", "n", "i", "f", "f">>

\* str.lower() on one character (the model's values are ASCII).
LowerChar(c) ==
    IF \E i \in 1..Len(UpperAlpha) : UpperAlpha[i] = c
    THEN LowerAlpha[CHOOSE i \in 1..Len(UpperAlpha) : UpperAlpha[i] = c]
    ELSE c

\* str.lower()
Lower(s) == [i \in 1..Len(s) |-> LowerChar(s[i])]

\* Python's `sub in s` on strings.
Contains(s, sub) ==
    \E i \in 1..(Len(s) - Len(sub) + 1) : SubSeq(s, i, i + Len(sub) - 1) = sub

\* Truthiness of a string: non-empty.
Truthy(s) == Len(s) > 0

EmptyStr == <<>>

----------------------------------------------------------------------------
(* Python dicts as insertion-ordered sequences of <<key, value>> *)

DictHas(d, k) == \E i \in 1..Len(d) : d[i][1] = k

DictIndex(d, k) == CHOOSE i \in 1..Len(d) : d[i][1] = k

\* d.get(k, default)
DictGet(d, k, default) ==
    IF DictHas(d, k) THEN d[DictIndex(d, k)][2] ELSE default

\* A dict whose assignment re-inserts the key at the end.
DictSetMoveToEnd(d, k, v) ==
    Append(SelectSeq(d, LAMBDA e : e[1] # k), <<k, v>>)

\* d[k] = v: an existing key keeps its position, a new key goes last.
DictSet(d, k, v) ==
    IF DictHas(d, k)
    THEN [d EXCEPT ![DictIndex(d, k)] = <<k, v>>]
    ELSE Append(d, <<k, v>>)

DictKeys(d) == [i \in 1..Len(d) |-> d[i][1]]

----------------------------------------------------------------------------
(* analyze() *)

\* The loop body with a classification outside the documented ones.
DefaultStatusAbsent(hdrs, h) == IF DictHas(hdrs, h) THEN "present" ELSE "absent"

\* One iteration of the loop over SEC_HEADERS.
DefaultStatus(hdrs, h) == IF DictHas(hdrs, h) THEN "present" ELSE "missing"

RECURSIVE CheckAllPresentOnly(_, _, _)
\* The loop recording only the headers that are present.
CheckAllPresentOnly(hdrs, todo, rep) ==
    IF todo = <<>> THEN rep
    ELSE CheckAllPresentOnly(hdrs, Tail(todo),
            IF DictHas(hdrs, Head(todo))
            THEN DictSet(rep, Head(todo), "present")
            ELSE rep)

RECURSIVE CheckAll(_, _, _)
\* The loop `for h in SEC_HEADERS`, over the part of the list still to visit.
CheckAll(hdrs, todo, rep) ==
    IF todo = <<>> THEN rep
    ELSE CheckAll(hdrs, Tail(todo),
                  DictSet(rep, Head(todo), DefaultStatus(hdrs, Head(todo))))

\* The x-content-type-options rule.
XContentTypeRule(hdrs, rep) ==
    LET x_content_type == Lower(DictGet(hdrs, "x-content-type-options", EmptyStr))
    IN  IF Truthy(x_content_type) /\ x_content_type # NosniffToken
        THEN DictSet(rep, "x-content-type-options", "invalid")
        ELSE IF ~Truthy(x_content_type)
             THEN DictSet(rep, "x-content-type-options", "missing")
             ELSE rep

\* The x-frame-options rule comparing the value as sent.
XFrameRuleNoLower(hdrs, rep) ==
    LET x_frame == DictGet(hdrs, "x-frame-options", EmptyStr)
    IN  IF Truthy(x_frame) /\ x_frame \notin {DenyToken, SameOriginToken}
        THEN DictSet(rep, "x-frame-options", "invalid")
        ELSE IF ~Truthy(x_frame)
             THEN DictSet(rep, "x-frame-options", "missing")
             ELSE rep

\* The x-frame-options rule.
XFrameRule(hdrs, rep) ==
    LET x_frame == Lower(DictGet(hdrs, "x-frame-options", EmptyStr))
    IN  IF Truthy(x_frame) /\ x_frame \notin {DenyToken, SameOriginToken}
        THEN DictSet(rep, "x-frame-options", "invalid")
        ELSE IF ~Truthy(x_frame)
             THEN DictSet(rep, "x-frame-options", "missing")
             ELSE rep

\* The strict-transport-security rule searching the value as sent.
HstsRuleNoLower(hdrs, rep) ==
    LET hsts == DictGet(hdrs, "strict-transport-security", EmptyStr)
    IN  IF Truthy(hsts)
        THEN IF ~Contains(hsts, MaxAgeToken)
             THEN DictSet(rep, "strict-transport-security", "present (no max-age)")
             ELSE IF Contains(hsts, MaxAgeZeroToken)
                  THEN DictSet(rep, "strict-transport-security", "present (disabled)")
                  ELSE rep
        ELSE rep

\* The strict-transport-security rule.
HstsRule(hdrs, rep) ==
    LET hsts == DictGet(hdrs, "strict-transport-security", EmptyStr)
    IN  IF Truthy(hsts)
        THEN IF ~Contains(Lower(hsts), MaxAgeToken)
             THEN DictSet(rep, "strict-transport-security", "present (no max-age)")
             ELSE IF Contains(Lower(hsts), MaxAgeZeroToken)
                  THEN DictSet(rep, "strict-transport-security", "present (disabled)")
                  ELSE rep
        ELSE rep

\* analyze(headers), reading the checklist as it is when called.
analyze(hdrs) ==
    HstsRule(hdrs,
        XFrameRule(hdrs,
            XContentTypeRule(hdrs,
                CheckAll(hdrs, SEC_HEADERS, <<>>))))

----------------------------------------------------------------------------
(* What a run can be given *)

SecHeadersList ==
    << "strict-transport-security", "content-security-policy", "x-frame-options",
       "x-content-type-options", "referrer-policy", "permissions-policy",
       "x-xss-protection", "expect-ct", "public-key-pins" >>

OtherValue == <<"x">>
Blank == <<" ">>

HstsValues ==
    { EmptyStr, Blank, HstsYear, HstsZero, HstsBare, HstsNoValue, HstsSpacedZero,
      HstsQuotedZero, HstsLeadingZero, HstsSubDomains, HstsMixedZero,
      HstsUpperYear, HstsPreloadZero }

XfoValues ==
    { EmptyStr, XfoDeny, XfoDenyUpper, XfoSameOriginUpper, XfoDenyTrailing, XfoAllowFrom }

XctoValues == { EmptyStr, XctoNosniff, XctoMixed, XctoPadded, XctoSniff }

PlainNames ==
    { "content-security-policy", "referrer-policy", "permissions-policy",
      "x-xss-protection", "expect-ct", "public-key-pins" }

\* Header fields a response may carry: lowercase name, value.
HeaderFields ==
    ({"strict-transport-security"} \X HstsValues)
    \cup ({"x-frame-options"} \X XfoValues)
    \cup ({"x-content-type-options"} \X XctoValues)
    \cup (PlainNames \X {EmptyStr, OtherValue})
    \cup ({"server"} \X {OtherValue})

\* The dicts fetch() can return: up to MaxHeaders fields, distinct keys, any order.
HeaderDicts ==
    UNION { { d \in [1..n -> HeaderFields] :
                \A i, j \in 1..n : d[i][1] = d[j][1] => i = j } : n \in 0..MaxHeaders }

Urls == {"https://lab.example/"}
Statuses == {200}
JsonOuts == {"None", "", "report.json"}

----------------------------------------------------------------------------
(* main() *)

NoFile == [state |-> "untouched"]

Init ==
    /\ pc = "start"
    /\ json_out \in JsonOuts
    /\ url \in Urls
    /\ SEC_HEADERS = SecHeadersList
    /\ fetched = <<>>
    /\ status = 0
    /\ headers = <<>>
    /\ report = <<>>
    /\ stdout = <<>>
    /\ file = NoFile
    /\ fetchCalls = 0
    /\ analyzeCalls = 0

\* print(banner)
PrintBanner ==
    /\ pc = "start"
    /\ pc' = "banner"
    /\ stdout' = Append(stdout, [kind |-> "banner"])
    /\ UNCHANGED <<json_out, url, SEC_HEADERS, fetched, status, headers, report,
                   file, fetchCalls, analyzeCalls>>

\* print(banner) raises (the banner is not encodable, or stdout is closed).
PrintBannerFail ==
    /\ pc = "start"
    /\ pc' = "failed"
    /\ UNCHANGED <<json_out, url, SEC_HEADERS, fetched, status, headers, report,
                   stdout, file, fetchCalls, analyzeCalls>>

\* status, headers = fetch(...) returns.
FetchOk ==
    /\ pc = "banner"
    /\ \E s \in Statuses, h \in HeaderDicts :
          /\ fetched' = <<s, h>>
          /\ status' = s
          /\ headers' = h
    /\ fetchCalls' = fetchCalls + 1
    /\ pc' = "fetched"
    /\ UNCHANGED <<json_out, url, SEC_HEADERS, report, stdout, file, analyzeCalls>>

\* fetch(...) raises: nothing in main() catches it.
FetchFail ==
    /\ pc = "banner"
    /\ fetchCalls' = fetchCalls + 1
    /\ pc' = "failed"
    /\ UNCHANGED <<json_out, url, SEC_HEADERS, fetched, status, headers, report,
                   stdout, file, analyzeCalls>>

\* A call of analyze() that consumes the checklist while reading it.
CallAnalyzeConsuming ==
    /\ pc = "fetched"
    /\ report' = analyze(headers)
    /\ SEC_HEADERS' = Tail(SEC_HEADERS)
    /\ analyzeCalls' = analyzeCalls + 1
    /\ pc' = "analyzed"
    /\ UNCHANGED <<json_out, url, fetched, status, headers,
                   stdout, file, fetchCalls>>

\* report = analyze(headers)
CallAnalyze ==
    /\ pc = "fetched"
    /\ report' = analyze(headers)
    /\ analyzeCalls' = analyzeCalls + 1
    /\ pc' = "analyzed"
    /\ UNCHANGED <<json_out, url, SEC_HEADERS, fetched, status, headers,
                   stdout, file, fetchCalls>>

\* The dict `output` built from the locals of main().
Output ==
    [url |-> url, status |-> status, headers |-> headers, findings |-> report]

\* `if args.json_out:` a non-empty string.
ToFile == json_out # "None" /\ json_out # ""

\* Writing the file and printing the report as well.
WriteFileAndPrint ==
    /\ pc = "analyzed"
    /\ json_out # "None" /\ json_out # ""
    /\ file' = [state |-> "written",
                doc |-> [url |-> url, status |-> status, headers |-> headers,
                         findings |-> report]]
    /\ stdout' = Append(stdout, [kind |-> "json",
                doc |-> [url |-> url, status |-> status, headers |-> headers,
                         findings |-> report]])
    /\ pc' = "done"
    /\ UNCHANGED <<json_out, url, SEC_HEADERS, fetched, status, headers, report,
                   fetchCalls, analyzeCalls>>

\* open(...) and json.dump(output, f) both succeed.
WriteFile ==
    /\ pc = "analyzed"
    /\ ToFile
    /\ file' = [state |-> "written", doc |-> Output]
    /\ pc' = "done"
    /\ UNCHANGED <<json_out, url, SEC_HEADERS, fetched, status, headers, report,
                   stdout, fetchCalls, analyzeCalls>>

\* open(...) raises (file untouched) or the write raises part-way.
WriteFileFail ==
    /\ pc = "analyzed"
    /\ ToFile
    /\ file' \in {NoFile, [state |-> "partial"]}
    /\ pc' = "failed"
    /\ UNCHANGED <<json_out, url, SEC_HEADERS, fetched, status, headers, report,
                   stdout, fetchCalls, analyzeCalls>>

\* print(json.dumps(output, indent=2))
PrintReport ==
    /\ pc = "analyzed"
    /\ ~ToFile
    /\ stdout' = Append(stdout, [kind |-> "json", doc |-> Output])
    /\ pc' = "done"
    /\ UNCHANGED <<json_out, url, SEC_HEADERS, fetched, status, headers, report,
                   file, fetchCalls, analyzeCalls>>

\* The print raises: nothing, or only part of the text, reached stdout.
PrintReportFail ==
    /\ pc = "analyzed"
    /\ ~ToFile
    /\ stdout' \in {stdout, Append(stdout, [kind |-> "partial"])}
    /\ pc' = "failed"
    /\ UNCHANGED <<json_out, url, SEC_HEADERS, fetched, status, headers, report,
                   file, fetchCalls, analyzeCalls>>

Next ==
    \/ PrintBanner
    \/ PrintBannerFail
    \/ FetchOk
    \/ FetchFail
    \/ CallAnalyze
    \/ WriteFile
    \/ WriteFileFail
    \/ PrintReport
    \/ PrintReportFail

Spec == Init /\ [][Next]_vars


----------------------------------------------------------------------------
(* Properties *)

\* analyze() has returned and `report` holds its result.
Returned == analyzeCalls > 0

\* The classification analyze() returned for header k.
Finding(k) == DictGet(report, k, "no entry")

Present(k) == DictHas(headers, k)
Value(k) == DictGet(headers, k, EmptyStr)

NineNames ==
    { "strict-transport-security", "content-security-policy", "x-frame-options",
      "x-content-type-options", "referrer-policy", "permissions-policy",
      "x-xss-protection", "expect-ct", "public-key-pins" }

NineInOrder ==
    << "strict-transport-security", "content-security-policy", "x-frame-options",
       "x-content-type-options", "referrer-policy", "permissions-policy",
       "x-xss-protection", "expect-ct", "public-key-pins" >>

\* C1: the key set of analyze(h) is exactly the nine checklist names, each
\* a key exactly once, whatever keys h has (keys outside the checklist too).
C1_KeySetIsChecklist ==
    Returned =>
        /\ { report[i][1] : i \in 1..Len(report) } = NineNames
        /\ \A n \in NineNames :
              Cardinality({ i \in 1..Len(report) : report[i][1] = n }) = 1

\* C1 witness: analyze returned for a mapping holding a key outside the
\* checklist and one checklist key, the other checklist keys being absent.
C1_Witness ==
    /\ Returned
    /\ Present("server")
    /\ Present("expect-ct")
    /\ Finding("public-key-pins") = "missing"

\* C2 (as stated): a header without a validation rule is "present" iff the
\* key exists with a non-empty value, and "missing" otherwise.
C2_PlainPresentIffNonEmpty ==
    Returned =>
        \A k \in PlainNames :
            Finding(k) = IF Present(k) /\ Value(k) # EmptyStr
                         THEN "present" ELSE "missing"

AllowedDeny == <<"d", "e", "n", "y">>
AllowedSameOrigin == <<"s", "a", "m", "e", "o", "r", "i", "g", "i", "n">>
AllowedNosniff == <<"n", "o", "s", "n", "i", "f", "f">>

Allowed(k) ==
    IF k = "x-frame-options" THEN {AllowedDeny, AllowedSameOrigin}
    ELSE {AllowedNosniff}

SubMaxAge == <<"m", "a", "x", "-", "a", "g", "e">>
SubMaxAgeZero == <<"m", "a", "x", "-", "a", "g", "e", "=", "0">>

\* C4: strict-transport-security present with a non-empty value v is
\* "present (no max-age)" when lower(v) lacks "max-age", "present (disabled)"
\* when lower(v) contains "max-age=0", and "present" otherwise; absent, "missing".
C4_HstsClassification ==
    Returned =>
        LET k == "strict-transport-security"
            v == Lower(Value(k))
        IN  /\ ~Present(k) => Finding(k) = "missing"
            /\ (Present(k) /\ Value(k) # EmptyStr) =>
                  Finding(k) = IF ~Contains(v, SubMaxAge) THEN "present (no max-age)"
                               ELSE IF Contains(v, SubMaxAgeZero) THEN "present (disabled)"
                               ELSE "present"

\* C4 witness: a mixed-case "Max-Age=0" was classified as disabled.
C4_Witness ==
    /\ Returned
    /\ Present("strict-transport-security")
    /\ Value("strict-transport-security") = HstsMixedZero
    /\ Finding("strict-transport-security") = "present (disabled)"

(* The max-age directive of an HSTS value, read as RFC 6797 writes it:     *)
(* directives separated by ";", optional blanks around names and values,   *)
(* the value a run of digits, optionally quoted.                            *)
IsBlank(c) == c \in {" ", "\t"}

RECURSIVE LStrip(_)
LStrip(s) == IF s # <<>> /\ IsBlank(Head(s)) THEN LStrip(Tail(s)) ELSE s

RECURSIVE RStrip(_)
RStrip(s) ==
    IF s # <<>> /\ IsBlank(s[Len(s)]) THEN RStrip(SubSeq(s, 1, Len(s) - 1)) ELSE s

Strip(s) == LStrip(RStrip(s))

\* Position of the first c in s, 0 when there is none.
IndexOf(s, c) ==
    IF \E i \in 1..Len(s) : s[i] = c
    THEN CHOOSE i \in 1..Len(s) : s[i] = c /\ \A j \in 1..(i - 1) : s[j] # c
    ELSE 0

RECURSIVE Directives(_)
Directives(s) ==
    LET i == IndexOf(s, ";")
    IN  IF i = 0 THEN <<s>>
        ELSE <<SubSeq(s, 1, i - 1)>> \o Directives(SubSeq(s, i + 1, Len(s)))

Unquote(s) ==
    IF Len(s) >= 2 /\ s[1] = "\"" /\ s[Len(s)] = "\""
    THEN SubSeq(s, 2, Len(s) - 1) ELSE s

Digits == {"0", "1", "2", "3", "4", "5", "6", "7", "8", "9"}

NonZeroNumber(s) ==
    /\ s # <<>>
    /\ \A i \in 1..Len(s) : s[i] \in Digits
    /\ \E i \in 1..Len(s) : s[i] # "0"

IsNonZeroMaxAge(d) ==
    LET t == Strip(d)
        i == IndexOf(t, "=")
    IN  /\ i > 0
        /\ Strip(SubSeq(t, 1, i - 1)) = SubMaxAge
        /\ NonZeroNumber(Unquote(Strip(SubSeq(t, i + 1, Len(t)))))

CarriesNonZeroMaxAge(v) ==
    LET ds == Directives(Lower(v))
    IN  \E i \in 1..Len(ds) : IsNonZeroMaxAge(ds[i])

\* C5 (as stated): strict-transport-security is plain "present" exactly when
\* its value carries a max-age directive with a non-zero value; such a value
\* is never "present (disabled)".
C5_PresentIffNonZeroMaxAge ==
    Returned =>
        LET k == "strict-transport-security"
            ok == Present(k) /\ CarriesNonZeroMaxAge(Value(k))
        IN  /\ Finding(k) = "present" <=> ok
            /\ ok => Finding(k) # "present (disabled)"

UpperChar(c) ==
    IF \E i \in 1..Len(LowerAlpha) : LowerAlpha[i] = c
    THEN UpperAlpha[CHOOSE i \in 1..Len(LowerAlpha) : LowerAlpha[i] = c]
    ELSE c

Upper(s) == [i \in 1..Len(s) |-> UpperChar(s[i])]

\* v with surrounding whitespace added, or with its letters changed in case.
Variants(v) ==
    { Blank \o v, v \o Blank, Blank \o v \o Blank, Upper(v), Lower(v) }

\* C6 (as stated): for the three value-validated headers, adding leading or
\* trailing whitespace to the value, or changing the case of its letters,
\* does not change the header's classification.
C6_TrimAndCaseInsensitive ==
    Returned =>
        \A k \in {"x-content-type-options", "x-frame-options",
                  "strict-transport-security"} :
            Present(k) =>
                \A w \in Variants(Value(k)) :
                    DictGet(analyze(DictSet(headers, k, w)), k, "no entry") = Finding(k)

SixClassifications ==
    { "present", "missing", "invalid", "missing/invalid",
      "present (no max-age)", "present (disabled)" }

\* C7: analyze returns for every mapping handed to it (a run that fetched
\* never fails before analyze has returned), every value it returns is one of
\* the six classifications, and for the empty mapping every checklist entry
\* is "missing".
C7_TotalAndClosed ==
    /\ (pc = "failed" /\ fetched # <<>>) => Returned
    /\ Returned =>
          /\ \A i \in 1..Len(report) : report[i][2] \in SixClassifications
          /\ headers = <<>> =>
                \A n \in NineNames : Finding(n) = "missing"

\* C7 witness: analyze returned for the empty mapping.
C7_Witness ==
    /\ Returned
    /\ headers = <<>>
    /\ Len(report) = 9

\* Complete reports on standard output / in the file.
StdoutReports == { i \in 1..Len(stdout) : stdout[i].kind = "json" }
FileReports == IF file.state = "written" THEN 1 ELSE 0
PartialOutput ==
    \/ file.state = "partial"
    \/ \E i \in 1..Len(stdout) : stdout[i].kind = "partial"

FetchFailed == fetchCalls = 1 /\ fetched = <<>>
FetchSucceeded == fetchCalls = 1 /\ fetched # <<>>
Ended == pc \in {"done", "failed"}

\* The one report went to sink `toFile`, and is {url, status, headers,
\* findings} with findings = analyze(headers).
OneReportTo(toFile) ==
    /\ Cardinality(StdoutReports) + FileReports = 1
    /\ ~PartialOutput
    /\ toFile <=> FileReports = 1
    /\ LET doc == IF toFile THEN file.doc
                  ELSE stdout[CHOOSE i \in StdoutReports : TRUE].doc
       IN  /\ doc.url = url
           /\ doc.status = fetched[1]
           /\ doc.headers = fetched[2]
           /\ doc.findings = analyze(fetched[2])

BeforeAndOnFailure ==
    /\ fetchCalls <= 1
    /\ analyzeCalls <= 1
    /\ FetchFailed =>
          /\ pc = "failed"
          /\ analyzeCalls = 0
          /\ StdoutReports = {} /\ FileReports = 0 /\ ~PartialOutput

\* C8 (as stated): at most one fetch; a failed fetch ends the run with no
\* analysis and no report; a successful fetch is followed by exactly one
\* analysis and exactly one report in exactly one sink, the file when
\* --json-out is given, otherwise standard output.
C8_OneFetchOneReport ==
    /\ BeforeAndOnFailure
    /\ (FetchSucceeded /\ Ended) =>
          /\ analyzeCalls = 1
          /\ OneReportTo(json_out # "None")

\* C8 (amended): as above, but after a successful fetch and the one analysis
\* the report is emitted only if writing it succeeds (otherwise the run ends
\* with no complete report in either sink), and the sink is the file only
\* when --json-out is given and non-empty.
C8_OneFetchOneReportUnlessWriteFails ==
    /\ BeforeAndOnFailure
    /\ (FetchSucceeded /\ pc \in {"analyzed", "done", "failed"}) => analyzeCalls = 1
    /\ (FetchSucceeded /\ pc = "fetched") => analyzeCalls = 0
    /\ (FetchSucceeded /\ pc = "done") =>
          OneReportTo(json_out # "None" /\ json_out # "")
    /\ (FetchSucceeded /\ pc = "failed") =>
          (StdoutReports = {} /\ FileReports = 0)

\* C8 witness: a run that fetched a non-empty mapping and wrote its report
\* to the file.
C8_Witness ==
    /\ pc = "done"
    /\ FetchSucceeded /\ headers # <<>>
    /\ file.state = "written"
    /\ StdoutReports = {}

\* C9: the keys of analyze(h), in insertion order, are the checklist in its
\* declaration order; the overwrites by the three rules move no key.
C9_KeyOrder == Returned => DictKeys(report) = NineInOrder

\* C9 witness: the mapping lists x-frame-options before
\* strict-transport-security and both entries were overwritten by their rules.
C9_Witness ==
    /\ Returned
    /\ Len(headers) = 2
    /\ headers[1][1] = "x-frame-options"
    /\ headers[2][1] = "strict-transport-security"
    /\ Finding("x-frame-options") = "invalid"
    /\ Finding("strict-transport-security") = "present (disabled)"

\* C10: analyze leaves its argument and the checklist as they were, so the
\* checklist is constant, calling analyze again on the same mapping once it
\* has returned gives the findings already returned, and the report's
\* "headers" is the mapping fetch returned.
C10_NoSideEffects ==
    /\ SEC_HEADERS = NineInOrder
    /\ fetched # <<>> => (headers = fetched[2] /\ status = fetched[1])
    /\ pc = "analyzed" => report = analyze(headers)
    /\ \A i \in StdoutReports : stdout[i].doc.headers = fetched[2]
    /\ file.state = "written" => file.doc.headers = fetched[2]

\* C10 witness: a report for a non-empty mapping was printed.
C10_Witness ==
    /\ pc = "done"
    /\ headers # <<>>
    /\ StdoutReports # {}

====
